---- MODULE Spec2Model ----
(***************************************************************************)
(* The Monte Carlo driver of rocketpy/simulation/monte_carlo.py:           *)
(*   - the result store: three line-oriented log files, the in-memory      *)
(*     logs loaded from them and the aggregates computed from the outputs  *)
(*     log (the file-path setters, the set_ and import_ methods);          *)
(*   - the sequential driver (simulate, __run_single_simulation,           *)
(*     __export_flight_data, __close_files, __finalize_simulation);        *)
(*   - the parallel driver (_run_in_parallel, _run_simulation_worker,      *)
(*     SimCounter, the manager's Lock, dict_to_h5).                        *)
(*   - the export of one trial to the h5 file in detail                    *)
(*     (inspect_object_attributes, dict_to_h5 over the types of values).   *)
(*                                                                         *)
(* Flight and the Stochastic* samplers are collaborators outside the file: *)
(* a trial either yields a flight or raises, and the sample of a trial is  *)
(* named by the number of the draw (last_rnd).  The flight's attributes    *)
(* are functions of the draw.                                              *)
(***************************************************************************)
EXTENDS Integers, Sequences, FiniteSets, TLC

\* ------------------------------------------------------------------ bounds
\* largest number_of_simulations handed to simulate
MaxSims == 2
\* number of API calls made on the object after construction
MaxCalls == 2
\* number of trials on record in a log left by an earlier program run
PriorSims == 1

\* ------------------------------------------------------------ file names
\* self.filename of the object under study, and a second name for import_*
filename == "f"
Bases == {"f", "g"}
RAW == ""
INPUTS == ".inputs.txt"
OUTPUTS == ".outputs.txt"
ERRORS == ".errors.txt"
Exts == {RAW, INPUTS, OUTPUTS, ERRORS}
\* filename=None of import_*: "filename if filename else self.filename"
None == ""
\* f"{filepath}{ext}"
FilePath(filepath, ext) == <<filepath, ext>>
Paths == {FilePath(b, e) : b \in Bases, e \in Exts}

\* --------------------------------------------------------- dicts and lines
\* The fields a flight can export (two of the exportables stand for all).
Exportables == {"apogee", "t_final"}
\* The key of a sampled parameter in last_rnd_dict.
ParamKeys == {"radius"}
\* self._inputs_dict = {} of __init__
EmptyDict == [id |-> 0, keys |-> {}]
\* the merged last_rnd_dict of the draw number id
InputsDict(id) == [id |-> id, keys |-> ParamKeys]
\* {export_item: getattr(flight, export_item)} of the flight of draw id
ResultsDict(id, export) == [id |-> id, keys |-> export]
\* the value a dict holds under a key: an attribute of the flight, or a
\* sampled parameter, both functions of the draw
ValueOf(d, key) ==
    IF key = "apogee" THEN 3 * d.id
    ELSE IF key = "t_final" THEN d.id + 10
    ELSE d.id

\* The number of bytes of the text of a dict: braces and newline, and the
\* text of each item (a sampled parameter prints longer than a result).
LineSize(d) ==
    3 + 20 * Cardinality(d.keys \cap ParamKeys) + 12 * Cardinality(d.keys \ ParamKeys)
\* json.dumps(d, cls=RocketPyEncoder) + "\n": one whole line of text
DumpsLine(d) == [json |-> d, whole |-> TRUE, size |-> LineSize(d)]
\* what is left of a line when other bytes overwrote its first n bytes
Fragment(line, n) == [json |-> line.json, whole |-> FALSE, size |-> line.size - n]

RECURSIVE LoadsPrefix(_)
\* "for line in rows: log.append(json.loads(line))": the dicts of the lines
\* before the first line json.loads rejects
LoadsPrefix(lines) ==
    IF lines = <<>> \/ ~Head(lines).whole THEN <<>>
    ELSE <<Head(lines).json>> \o LoadsPrefix(Tail(lines))

\* ------------------------------------------------------------ exceptions
NoExc == [type |-> "none", trial |-> 0]
FileNotFound == [type |-> "FileNotFoundError", trial |-> 0]
JSONDecode == [type |-> "JSONDecodeError", trial |-> 0]
\* the exception a collaborator raises in the trial of iteration count n
TrialError(n) == [type |-> "Exception", trial |-> n]

\* ------------------------------------------------------------- aggregates
RECURSIVE SumSeq(_)
SumSeq(s) == IF s = <<>> THEN 0 ELSE Head(s) + SumSeq(Tail(s))
RECURSIVE Gcd(_, _)
Gcd(a, b) == IF b = 0 THEN a ELSE Gcd(b, a % b)
\* the rational p/q (q > 0) in lowest terms
Ratio(p, q) ==
    LET g == Gcd(IF p < 0 THEN -p ELSE p, q) IN <<p \div g, q \div g>>
\* np.mean(values)
Mean(values) == Ratio(SumSeq(values), Len(values))
\* np.std(values), the population standard deviation, held as its square
StdSquared(values) ==
    LET n == Len(values)
        s == SumSeq(values)
        q == SumSeq([i \in 1..n |-> values[i] * values[i]])
    IN  Ratio(n * q - s * s, n * n)

\* a list with one value per dict, 0 where the dict has no such key
ValuesOfPadded(log, key) ==
    [i \in 1..Len(log) |-> IF key \in log[i].keys THEN ValueOf(log[i], key) ELSE 0]
RECURSIVE ValuesOf(_, _)
\* the values the dicts of a log hold under key, in order
ValuesOf(log, key) ==
    IF log = <<>> THEN <<>>
    ELSE (IF key \in Head(log).keys THEN <<ValueOf(Head(log), key)>> ELSE <<>>)
         \o ValuesOf(Tail(log), key)
\* set_results: results[key] collects the value of every dict that has key
ResultsOf(log) ==
    [key \in UNION {log[i].keys : i \in 1..Len(log)} |-> ValuesOf(log, key)]
\* set_processed_results
ProcessedOf(results) ==
    [key \in DOMAIN results |-> <<Mean(results[key]), StdSquared(results[key])>>]

\* ------------------------------------------------- the logs and the setters
\* open(path, "r") and the loop over its lines
ReadLog(fsys, path) ==
    IF path \notin DOMAIN fsys THEN [log |-> <<>>, exc |-> FileNotFound]
    ELSE LET log == LoadsPrefix(fsys[path])
         IN  [log |-> log,
              exc |-> IF Len(log) = Len(fsys[path]) THEN NoExc ELSE JSONDecode]

\* Every operation on the object maps the object o (a record of its
\* attributes, o.exc the exception in flight) to the object it leaves.
set_inputs_log(o, fsys) ==
    LET r == ReadLog(fsys, o._input_file)
    IN  [o EXCEPT !.inputs_log = r.log, !.exc = r.exc]
\* a set_outputs_log without "self.outputs_log = []"
set_outputs_log_extending(o, fsys) ==
    LET r == ReadLog(fsys, o._output_file)
    IN  [o EXCEPT !.outputs_log = @ \o r.log, !.exc = r.exc]
set_outputs_log(o, fsys) ==
    LET r == ReadLog(fsys, o._output_file)
    IN  [o EXCEPT !.outputs_log = r.log, !.exc = r.exc]
set_errors_log(o, fsys) ==
    LET r == ReadLog(fsys, o._error_file)
    IN  [o EXCEPT !.errors_log = r.log, !.exc = r.exc]
set_num_of_loaded_sims(o, fsys) ==
    IF o._output_file \notin DOMAIN fsys THEN [o EXCEPT !.exc = FileNotFound]
    ELSE [o EXCEPT !.num_of_loaded_sims = Len(fsys[o._output_file])]
set_results(o) == [o EXCEPT !.results = ResultsOf(o.outputs_log)]
set_processed_results(o) ==
    [o EXCEPT !.processed_results = ProcessedOf(o.results)]

\* input_file.setter
SetInputFile(o, fsys, value) ==
    set_inputs_log([o EXCEPT !._input_file = value], fsys)
\* output_file.setter: each step runs only if the one before did not raise
SetOutputFile(o, fsys, value) ==
    LET o1 == set_outputs_log([o EXCEPT !._output_file = value], fsys)
        o2 == IF o1.exc = NoExc THEN set_num_of_loaded_sims(o1, fsys) ELSE o1
    IN  IF o2.exc = NoExc THEN set_processed_results(set_results(o2)) ELSE o2
\* error_file.setter
SetErrorFile(o, fsys, value) ==
    set_errors_log([o EXCEPT !._error_file = value], fsys)

\* import_inputs / import_outputs / import_errors share one shape: try
\* "<filepath><ext>", and on FileNotFoundError the path as given.  ImportLog
\* is the path that opens, in a sequence that is empty when neither does.
ImportLog(fsys, name, ext) ==
    LET filepath == IF name # None THEN name ELSE filename
    IN  IF FilePath(filepath, ext) \in DOMAIN fsys
        THEN <<FilePath(filepath, ext)>>
        ELSE IF FilePath(filepath, RAW) \in DOMAIN fsys
        THEN <<FilePath(filepath, RAW)>>
        ELSE << >>
import_inputs(o, fsys, name) ==
    LET found == ImportLog(fsys, name, INPUTS)
    IN  IF found = << >> THEN [o EXCEPT !.exc = FileNotFound]
        ELSE SetInputFile(o, fsys, found[1])
import_outputs(o, fsys, name) ==
    LET found == ImportLog(fsys, name, OUTPUTS)
    IN  IF found = << >> THEN [o EXCEPT !.exc = FileNotFound]
        ELSE SetOutputFile(o, fsys, found[1])
import_errors(o, fsys, name) ==
    LET found == ImportLog(fsys, name, ERRORS)
    IN  IF found = << >> THEN [o EXCEPT !.exc = FileNotFound]
        ELSE SetErrorFile(o, fsys, found[1])

\* import_results: the three imports with one filepath, outputs first
import_results(o, fsys, name) ==
    LET filepath == IF name # None THEN name ELSE filename
        o1 == import_outputs(o, fsys, filepath)
        o2 == IF o1.exc = NoExc THEN import_inputs(o1, fsys, filepath) ELSE o1
    IN  IF o2.exc = NoExc THEN import_errors(o2, fsys, filepath) ELSE o2

\* ------------------------------------------------------------ file handles
\* open(path, open_mode, encoding="utf-8"): "w" truncates, "a" creates
Open(fsys, path, mode) ==
    [p \in DOMAIN fsys \cup {path} |->
        IF p = path /\ (mode = "w" \/ p \notin DOMAIN fsys) THEN <<>> ELSE fsys[p]]
\* The handle of a file: text written to it sits in the handle's buffer and
\* reaches the file when the handle is closed (the runs modelled are shorter
\* than io.DEFAULT_BUFFER_SIZE).  start is the size of the file at open.
Handle(fsys, path, mode) ==
    [path |-> path, mode |-> mode, buf |-> <<>>, closed |-> FALSE,
     start |-> Len(fsys[path])]
\* file.write(line)
Write(h, line) == [h EXCEPT !.buf = Append(@, line)]
RECURSIVE Bytes(_)
Bytes(lines) == IF lines = <<>> THEN 0 ELSE Head(lines).size + Bytes(Tail(lines))
RECURSIVE Beyond(_, _)
\* what of the lines of a file lies beyond its first n bytes
Beyond(lines, n) ==
    IF lines = <<>> \/ n = 0 THEN lines
    ELSE IF Head(lines).size <= n THEN Beyond(Tail(lines), n - Head(lines).size)
    ELSE <<Fragment(Head(lines), n)>> \o Tail(lines)
\* The content a "w" handle leaves when it writes buf at offset 0 (it was
\* opened at offset 0 and wrote nothing before) of a file holding old.
Overlay(old, buf) == buf \o Beyond(old, Bytes(buf))
\* file.close(): the flush of the buffer; an "a" handle writes at the end of
\* the file, a closed handle does nothing
Flushed(fsys, h) ==
    IF h.closed THEN fsys
    ELSE IF h.mode = "a" THEN [fsys EXCEPT ![h.path] = @ \o h.buf]
    ELSE [fsys EXCEPT ![h.path] = Overlay(@, h.buf)]
\* __close_files: input_file.close(); output_file.close(); error_file.close()
CloseFiles(fsys, fl) ==
    Flushed(Flushed(Flushed(fsys, fl.input_file), fl.output_file), fl.error_file)
Closed(fl) ==
    [fl EXCEPT !.input_file.closed = TRUE, !.output_file.closed = TRUE,
               !.error_file.closed = TRUE]

\* ------------------------------------------------------------ construction
\* The logs an earlier run of the program under file name b left: the trial
\* records of PriorSims trials, exported with every exportable field.
PriorId(b, i) == IF b = filename THEN -i ELSE -(PriorSims + i)
PriorInputs(b) == [i \in 1..PriorSims |-> DumpsLine(InputsDict(PriorId(b, i)))]
PriorOutputs(b) ==
    [i \in 1..PriorSims |-> DumpsLine(ResultsDict(PriorId(b, i), Exportables))]
\* What exists under a name before construction: nothing, the three logs of
\* an earlier run, or one outputs file whose path is the name itself.
Layouts == {"none", "run", "raw"}
FilesOf(b, layout) ==
    IF layout = "run" THEN {FilePath(b, INPUTS), FilePath(b, OUTPUTS), FilePath(b, ERRORS)}
    ELSE IF layout = "raw" THEN {FilePath(b, RAW)}
    ELSE {}
InitialFiles(layout) ==
    [p \in UNION {FilesOf(b, layout[b]) : b \in Bases} |->
        IF p[2] = INPUTS THEN PriorInputs(p[1])
        ELSE IF p[2] = ERRORS THEN <<>>
        ELSE PriorOutputs(p[1])]

\* __init__ up to the imports
NewObject(export) ==
    [export_list |-> export,
     inputs_log |-> <<>>, outputs_log |-> <<>>, errors_log |-> <<>>,
     num_of_loaded_sims |-> 0,
     results |-> ResultsOf(<<>>), processed_results |-> ProcessedOf(ResultsOf(<<>>)),
     _inputs_dict |-> EmptyDict,
     _input_file |-> FilePath(filename, INPUTS),
     _output_file |-> FilePath(filename, OUTPUTS),
     _error_file |-> FilePath(filename, ERRORS),
     number_of_simulations |-> 0, iteration_count |-> 0,
     exc |-> NoExc]
\* try: self.import_X() except FileNotFoundError: self._X_file = default
TryImport(o, imported, field, ext) ==
    IF imported.exc = FileNotFound
    THEN [o EXCEPT ![field] = FilePath(filename, ext)]
    ELSE imported
\* __init__
Construct(fsys, export) ==
    LET o0 == NewObject(export)
        o1 == TryImport(o0, import_inputs(o0, fsys, None), "_input_file", INPUTS)
        o2 == TryImport(o1, import_outputs(o1, fsys, None), "_output_file", OUTPUTS)
    IN  TryImport(o2, import_errors(o2, fsys, None), "_error_file", ERRORS)

\* ------------------------------------------------------------------- state
VARIABLES
    fs,        \* the file system: path -> lines, for the paths that exist
    mc,        \* the MonteCarlo object: attribute -> value
    pc,        \* where the running simulate call is ("idle": no call)
    files,     \* input_file, output_file, error_file of simulate
    caught,    \* the exception the try of simulate caught
    last_rnd,  \* the number of draws the samplers have made
    raised,    \* the exception the last call on the object raised
    calls,     \* the calls on the object that have ended, in order
    n_sim,       \* number_of_simulations of the parallel run
    n_workers,   \* n_workers of the parallel run
    driver,      \* where _run_in_parallel is
    started,     \* how many processes "for p in processes: p.start()" started
    joined,      \* how many processes "for p in processes: p.join()" joined
    worker,      \* worker_no -> the process running _run_simulation_worker
    count,       \* SimCounter.count, in the manager process
    write_lock,  \* the worker holding the manager's Lock, Free if none
    h5file,      \* montecarlo_output.h5: key of a trial -> its entry
    reported,    \* sim_counter.get_count() as the driver printed it
    flight,            \* the Flight of the trial a worker exports
    input_parameters,  \* flightv1_serializer(flight, ..., return_dict=True)
    export_dict,       \* the dict the worker hands to dict_to_h5
    h5_file,           \* the h5py.File the worker's dict_to_h5 writes to
    export_pc          \* where the export of that trial is

seqvars == <<fs, mc, pc, files, caught, last_rnd, raised, calls>>
parvars == <<n_sim, n_workers, driver, started, joined, worker, count,
             write_lock, h5file, reported>>
sinkvars == <<flight, input_parameters, export_dict, h5_file, export_pc>>
vars == <<seqvars, parvars, sinkvars>>

NoHandle == [path |-> FilePath(filename, RAW), mode |-> "w", buf |-> <<>>,
             closed |-> TRUE, start |-> 0]
NoFiles == [input_file |-> NoHandle, output_file |-> NoHandle, error_file |-> NoHandle]

\* the export lists the objects under study are built with
ExportLists == {{"apogee"}, {"apogee", "t_final"}}

\* ---------------------------------------------- the parallel run's objects
\* the largest n_workers and number_of_simulations of a parallel run
MaxWorkers == 2
MaxTrials == 3
\* manager.Lock(): free, or held by the process that acquired it
Free == [locked |-> FALSE, owner |-> 0]
HeldBy(worker_no) == [locked |-> TRUE, owner |-> worker_no]
WorkerNos == 0..(MaxWorkers - 1)
\* a Process object before p.start()
NewProcess(worker_no) ==
    [pc |-> "new", i |-> worker_no, loaded |-> 0, sim_idx |-> 0,
     ran |-> <<>>, returned |-> <<>>]
\* the state of the parallel machinery while no parallel run is on
NoParallelRun ==
    /\ n_sim = 0
    /\ n_workers = 0
    /\ driver = "idle"
    /\ started = 0
    /\ joined = 0
    /\ worker = [w \in WorkerNos |-> NewProcess(w)]
    /\ count = 0
    /\ write_lock = Free
    /\ h5file = << >>
    /\ reported = 0

\* the state of a worker's export while no export is looked at
NoExport ==
    /\ flight = << >>
    /\ input_parameters = << >>
    /\ export_dict = << >>
    /\ h5_file = [data |-> << >>, exc |-> NoExc]
    /\ export_pc = "idle"

\* the state of the sequential driver while no simulate call has been made
NoSequentialRun ==
    /\ files = NoFiles
    /\ caught = NoExc
    /\ last_rnd = 0
    /\ raised = NoExc
    /\ calls = <<>>

Init ==
    /\ \E layout \in [Bases -> Layouts] : fs = InitialFiles(layout)
    /\ \E export \in ExportLists : mc = Construct(fs, export)
    /\ pc = "idle"
    /\ NoSequentialRun
    /\ NoParallelRun
    /\ NoExport

\* the record of a call that has ended
Call(op, n, path, append, how, exc) ==
    [op |-> op, n |-> n, path |-> path, append |-> append, how |-> how, exc |-> exc]
Ended(o, call) ==
    /\ mc' = [o EXCEPT !.exc = NoExc]
    /\ raised' = o.exc
    /\ calls' = Append(calls, call)
    /\ pc' = "idle"
CanCall == pc = "idle" /\ Len(calls) < MaxCalls

\* ------------------------------------------------- reloading from the files
ImportNames == {None} \cup (Bases \ {filename})
ImportInputs(name) ==
    /\ CanCall
    /\ LET o == import_inputs(mc, fs, name)
       IN  Ended(o, Call("import_inputs", 0, <<name, RAW>>, FALSE, "ended", o.exc))
    /\ UNCHANGED <<fs, files, caught, last_rnd>>
    /\ UNCHANGED <<parvars, sinkvars>>
ImportOutputs(name) ==
    /\ CanCall
    /\ LET o == import_outputs(mc, fs, name)
       IN  Ended(o, Call("import_outputs", 0, <<name, RAW>>, FALSE, "ended", o.exc))
    /\ UNCHANGED <<fs, files, caught, last_rnd>>
    /\ UNCHANGED <<parvars, sinkvars>>
ImportErrors(name) ==
    /\ CanCall
    /\ LET o == import_errors(mc, fs, name)
       IN  Ended(o, Call("import_errors", 0, <<name, RAW>>, FALSE, "ended", o.exc))
    /\ UNCHANGED <<fs, files, caught, last_rnd>>
    /\ UNCHANGED <<parvars, sinkvars>>
ImportResults(name) ==
    /\ CanCall
    /\ LET o == import_results(mc, fs, name)
       IN  Ended(o, Call("import_results", 0, <<name, RAW>>, FALSE, "ended", o.exc))
    /\ UNCHANGED <<fs, files, caught, last_rnd>>
    /\ UNCHANGED <<parvars, sinkvars>>
\* mc.input_file = value, mc.output_file = value, mc.error_file = value
AssignInputFile(value) ==
    /\ CanCall
    /\ LET o == SetInputFile(mc, fs, value)
       IN  Ended(o, Call("input_file", 0, value, FALSE, "ended", o.exc))
    /\ UNCHANGED <<fs, files, caught, last_rnd>>
    /\ UNCHANGED <<parvars, sinkvars>>
AssignOutputFile(value) ==
    /\ CanCall
    /\ LET o == SetOutputFile(mc, fs, value)
       IN  Ended(o, Call("output_file", 0, value, FALSE, "ended", o.exc))
    /\ UNCHANGED <<fs, files, caught, last_rnd>>
    /\ UNCHANGED <<parvars, sinkvars>>
AssignErrorFile(value) ==
    /\ CanCall
    /\ LET o == SetErrorFile(mc, fs, value)
       IN  Ended(o, Call("error_file", 0, value, FALSE, "ended", o.exc))
    /\ UNCHANGED <<fs, files, caught, last_rnd>>
    /\ UNCHANGED <<parvars, sinkvars>>

\* ------------------------------------------------------ sequential simulate
\* The numbers of simulations asked for (a negative one runs no trial).
SimCounts == (-1)..MaxSims

\* simulate(number_of_simulations, append, parallel=False) up to the try
SimulateSequential(number_of_simulations, append) ==
    /\ CanCall
    /\ LET open_mode == IF append THEN "a" ELSE "w"
           fs1 == Open(fs, mc._input_file, open_mode)
           fs2 == Open(fs1, mc._output_file, open_mode)
           fs3 == Open(fs2, mc._error_file, open_mode)
       IN  /\ fs' = fs3
           /\ files' = [input_file |-> Handle(fs1, mc._input_file, open_mode),
                        output_file |-> Handle(fs2, mc._output_file, open_mode),
                        error_file |-> Handle(fs3, mc._error_file, open_mode)]
    /\ mc' = [mc EXCEPT !.number_of_simulations = number_of_simulations,
                        !.iteration_count =
                            IF append THEN mc.num_of_loaded_sims ELSE 0]
    /\ caught' = NoExc
    /\ pc' = "loop"
    /\ UNCHANGED <<last_rnd, raised, calls>>
    /\ UNCHANGED <<parvars, sinkvars>>

\* The statements of a trial in which it can stop: "flight" the Flight(...)
\* call (its arguments, the draws, are evaluated), "getattr" the results
\* dict of __export_flight_data, "dumps" the json.dumps of the results after
\* the input line is written, "reprint" the progress line after both writes.
TrialSteps == <<"flight", "getattr", "dumps", "reprint">>
StepNo(step) == CHOOSE i \in 1..Len(TrialSteps) : TrialSteps[i] = step
\* A trial runs through ("done"), or one of its statements raises an
\* exception of the collaborators ("Exception": the Flight, a flight
\* attribute, the encoder) or is interrupted ("KeyboardInterrupt").
Outcomes ==
    {<<"done", "none">>}
    \cup {<<step, "KeyboardInterrupt">> : step \in {"flight", "getattr", "dumps", "reprint"}}
    \cup {<<step, "Exception">> : step \in {"flight", "getattr", "dumps"}}
\* the trial reached the statement: it ran through or stopped in it or later
Reached(outcome, step) ==
    outcome[1] = "done" \/ StepNo(outcome[1]) >= StepNo(step)
\* the trial got past the statement
Passed(outcome, step) ==
    outcome[1] = "done" \/ StepNo(outcome[1]) > StepNo(step)

\* __export_flight_data: the two writes of a trial, as far as it got
ExportFlightData(fl, inputs_dict, results, outcome) ==
    LET fl1 == IF Passed(outcome, "getattr")
               THEN [fl EXCEPT !.input_file = Write(@, DumpsLine(inputs_dict))]
               ELSE fl
    IN  IF Passed(outcome, "dumps")
        THEN [fl1 EXCEPT !.output_file = Write(@, DumpsLine(results))]
        ELSE fl1

\* one pass of "while self.iteration_count < self.number_of_simulations:
\* self.__run_single_simulation(input_file, output_file)"
RunSingleSimulation(outcome) ==
    /\ pc = "loop"
    /\ mc.iteration_count < mc.number_of_simulations
    /\ LET iteration == mc.iteration_count + 1
           drawn == last_rnd + 1
           inputs_dict == IF Passed(outcome, "flight")
                          THEN InputsDict(drawn) ELSE mc._inputs_dict
       IN  /\ last_rnd' = drawn
           /\ mc' = [mc EXCEPT !.iteration_count = iteration,
                               !._inputs_dict = inputs_dict]
           /\ files' = ExportFlightData(files, inputs_dict,
                                        ResultsDict(drawn, mc.export_list), outcome)
           /\ caught' = IF outcome[2] = "Exception" THEN TrialError(iteration)
                        ELSE IF outcome[2] = "KeyboardInterrupt"
                        THEN [type |-> "KeyboardInterrupt", trial |-> iteration]
                        ELSE NoExc
           /\ pc' = IF outcome[1] = "done" THEN "loop" ELSE outcome[2]
    /\ UNCHANGED <<fs, raised, calls>>
    /\ UNCHANGED <<parvars, sinkvars>>

\* the error record of both except clauses
WriteError(fl, o) ==
    [fl EXCEPT !.error_file = Write(@, DumpsLine(o._inputs_dict))]

\* __finalize_simulation: close, then reassign the three paths
FinalizeSimulation(o, fsys) ==
    LET o1 == SetInputFile(o, fsys, FilePath(filename, INPUTS))
        o2 == IF o1.exc = NoExc
              THEN SetOutputFile(o1, fsys, FilePath(filename, OUTPUTS)) ELSE o1
    IN  IF o2.exc = NoExc
        THEN SetErrorFile(o2, fsys, FilePath(filename, ERRORS)) ELSE o2

SimulateCall(how, exc) ==
    Call("simulate", mc.number_of_simulations, mc._output_file,
         files.input_file.mode = "a", how, exc)

\* except KeyboardInterrupt: the error record, the close; the clause has no
\* return or raise, so the call goes on into __finalize_simulation
ExceptKeyboardInterrupt ==
    /\ pc = "KeyboardInterrupt"
    /\ LET fl == WriteError(files, mc)
       IN  /\ files' = Closed(fl)
           /\ fs' = CloseFiles(fs, fl)
           /\ LET o == FinalizeSimulation(mc, CloseFiles(fs, fl))
              IN  Ended(o, SimulateCall("KeyboardInterrupt", o.exc))
    /\ UNCHANGED <<caught, last_rnd>>
    /\ UNCHANGED <<parvars, sinkvars>>

\* an except clause that closes the files before it writes the error record
ExceptExceptionClosingFirst ==
    /\ pc = "Exception"
    /\ files' = Closed(WriteError(files, mc))
    /\ fs' = CloseFiles(fs, files)
    /\ Ended([mc EXCEPT !.exc = caught], SimulateCall("Exception", caught))
    /\ UNCHANGED <<caught, last_rnd>>
    /\ UNCHANGED <<parvars, sinkvars>>
\* except Exception as error: the error record, the close, raise error
ExceptException ==
    /\ pc = "Exception"
    /\ LET fl == WriteError(files, mc)
       IN  /\ files' = Closed(fl)
           /\ fs' = CloseFiles(fs, fl)
    /\ Ended([mc EXCEPT !.exc = caught], SimulateCall("Exception", caught))
    /\ UNCHANGED <<caught, last_rnd>>
    /\ UNCHANGED <<parvars, sinkvars>>

\* the loop ends with the count at the total: __finalize_simulation
Completed ==
    /\ pc = "loop"
    /\ mc.iteration_count >= mc.number_of_simulations
    /\ files' = Closed(files)
    /\ fs' = CloseFiles(fs, files)
    /\ LET o == FinalizeSimulation(mc, CloseFiles(fs, files))
       IN  Ended(o, SimulateCall("completed", o.exc))
    /\ UNCHANGED <<caught, last_rnd>>
    /\ UNCHANGED <<parvars, sinkvars>>

Next ==
    \/ \E name \in ImportNames : ImportInputs(name)
    \/ \E name \in ImportNames : ImportOutputs(name)
    \/ \E name \in ImportNames : ImportErrors(name)
    \/ \E name \in ImportNames : ImportResults(name)
    \/ \E value \in Paths : AssignInputFile(value)
    \/ \E value \in Paths : AssignOutputFile(value)
    \/ \E value \in Paths : AssignErrorFile(value)
    \/ \E n \in SimCounts, append \in BOOLEAN : SimulateSequential(n, append)
    \/ \E outcome \in Outcomes : RunSingleSimulation(outcome)
    \/ ExceptKeyboardInterrupt
    \/ ExceptException
    \/ Completed

Spec == Init /\ [][Next]_vars

\* ------------------------------------------- construction and a first run
\* An entry of the export_list argument: a str, or an object of another type.
Str(text) == [type |-> "str", text |-> text]
NotStr == [type |-> "int", text |-> "7"]
\* The export_list arguments of __init__ (the empty one stands for None and
\* for an empty list: "if export_list:" takes both the same way).
ExportArgs == SUBSET {Str("apogee"), Str("t_final"), Str("not_a_real_field"), NotStr}
\* standard_output, the default list (every name of it is an exportable)
StandardOutput == {"apogee", "t_final"}
TypeError == [type |-> "TypeError", trial |-> 0]
ValueError == [type |-> "ValueError", trial |-> 0]
\* a loop body that lets every entry through
CheckAttrNothing(attr) == NoExc
\* what the body of "for attr in set(export_list)" raises on attr
CheckAttr(attr) ==
    IF attr.type # "str" THEN TypeError
    ELSE IF attr.text \notin Exportables THEN ValueError
    ELSE NoExc
\* __check_export_list: the exceptions the loop can raise.  A set is walked
\* in no order the program fixes, so the entry the loop rejects is any of
\* the entries it would reject.
CheckErrors(export_list) == {CheckAttr(attr) : attr \in export_list} \ {NoExc}
\* __check_export_list: the list it returns when it raises nothing
CheckExportList(export_list) ==
    IF export_list # {} THEN {attr.text : attr \in export_list} ELSE StandardOutput

\* __init__ at "# Checks export_list": the attributes are initialised, the
\* files of earlier runs lie on the disk
RunInit ==
    /\ \E layout \in [Bases -> Layouts] : fs = InitialFiles(layout)
    /\ mc = NewObject({})
    /\ pc = "new"
    /\ NoSequentialRun
    /\ NoParallelRun
    /\ NoExport

\* MonteCarlo(filename, ..., export_list): the check of the list, then the
\* three imports; an exception leaves no object
New(export_list) ==
    /\ pc = "new"
    /\ \/ \E error \in CheckErrors(export_list) :
             /\ raised' = error
             /\ pc' = "failed"
             /\ UNCHANGED mc
       \/ /\ CheckErrors(export_list) = {}
          /\ LET o == Construct(fs, CheckExportList(export_list))
             IN  /\ mc' = [o EXCEPT !.exc = NoExc]
                 /\ raised' = o.exc
                 /\ pc' = IF o.exc = NoExc THEN "idle" ELSE "failed"
    /\ UNCHANGED <<fs, files, caught, last_rnd, calls>>
    /\ UNCHANGED <<parvars, sinkvars>>

\* The three logs reloaded from the paths they have: "mc.input_file =
\* mc.input_file; mc.output_file = mc.output_file; mc.error_file =
\* mc.error_file", of which an exception skips the rest.
ReloadLogs(o, fsys) ==
    LET o1 == SetInputFile(o, fsys, o._input_file)
        o2 == IF o1.exc = NoExc THEN SetOutputFile(o1, fsys, o1._output_file) ELSE o1
    IN  IF o2.exc = NoExc THEN SetErrorFile(o2, fsys, o2._error_file) ELSE o2
\* the reloads made on the object so far
Reloads == {i \in 1..Len(calls) : calls[i].op = "reload"}
\* a reload of the three logs, made at most twice on an object
Reload ==
    /\ pc = "idle"
    /\ Cardinality(Reloads) < 2
    /\ LET o == ReloadLogs(mc, fs)
       IN  Ended(o, Call("reload", 0, mc._output_file, FALSE, "ended", o.exc))
    /\ UNCHANGED <<fs, files, caught, last_rnd>>
    /\ UNCHANGED <<parvars, sinkvars>>

\* no simulate call has been made on the object
NoSimulateYet == \A i \in 1..Len(calls) : calls[i].op # "simulate"

\* the one simulate call made on the object
FirstSimulate(number_of_simulations, append) ==
    /\ NoSimulateYet
    /\ SimulateSequential(number_of_simulations, append)

\* the object is constructed and simulate is called on it once
RunNext ==
    \/ \E export_list \in ExportArgs : New(export_list)
    \/ \E n \in SimCounts, append \in BOOLEAN : FirstSimulate(n, append)
    \/ \E outcome \in Outcomes : RunSingleSimulation(outcome)
    \/ ExceptKeyboardInterrupt
    \/ ExceptException
    \/ Completed
    \/ Reload

RunSpec == RunInit /\ [][RunNext]_vars

\* ------------------------------------------------------- parallel simulate
\* The parallel run under study: simulate(n, parallel=True) has been called
\* on a freshly constructed object and is in _run_in_parallel, with the
\* processes created and none started.  The h5 file of an earlier parallel
\* run may lie in batch_path.
Workers == 0..(n_workers - 1)
\* the entry {"inputs": ..., "outputs": ...} of the trial with index i, as
\* worker_no wrote it
Entry(i, worker_no) == [key |-> i, by |-> worker_no, inputs |-> TRUE, outputs |-> TRUE]
\* an entry of which dict_to_h5 wrote the inputs group before it raised
PartEntry(i, worker_no) == [key |-> i, by |-> worker_no, inputs |-> TRUE, outputs |-> FALSE]
StaleFile == [k \in {0} |-> Entry(0, 0)]

ParInit ==
    /\ fs = InitialFiles([b \in Bases |-> "run"])
    /\ mc = Construct(fs, Exportables)
    /\ pc = "parallel"
    /\ NoSequentialRun
    /\ n_sim \in 0..MaxTrials
    /\ n_workers \in 1..MaxWorkers
    /\ driver = "new"
    /\ started = 0
    /\ joined = 0
    /\ worker = [w \in WorkerNos |-> NewProcess(w)]
    /\ count = 0
    /\ write_lock = Free
    /\ h5file \in {<< >>, StaleFile}
    /\ reported = 0
    /\ NoExport

\* "with h5py.File(path, 'w') as _: pass": the file is created empty
InitializeWriteFile ==
    /\ driver = "new"
    /\ h5file' = << >>
    /\ driver' = "start"
    /\ UNCHANGED <<n_sim, n_workers, started, joined, worker, count, write_lock, reported>>
    /\ UNCHANGED <<seqvars, sinkvars>>

\* one pass of "for p in processes: p.start()"
StartProcess ==
    /\ driver = "start"
    /\ started < n_workers
    /\ worker' = [worker EXCEPT ![started].pc = "for"]
    /\ started' = started + 1
    /\ driver' = IF started + 1 = n_workers THEN "join" ELSE "start"
    /\ UNCHANGED <<n_sim, n_workers, joined, count, write_lock, h5file, reported>>
    /\ UNCHANGED <<seqvars, sinkvars>>

\* the process has ended, by returning from the worker or by an exception
Terminated(w) == worker[w].pc \in {"exited", "crashed"}

\* a join that returns whether or not the process has ended
JoinWithoutWaiting ==
    /\ driver = "join"
    /\ joined < n_workers
    /\ joined' = joined + 1
    /\ UNCHANGED <<n_sim, n_workers, driver, started, worker, count, write_lock, h5file, reported>>
    /\ UNCHANGED <<seqvars, sinkvars>>
\* one pass of "for p in processes: p.join()": returns when p has ended
JoinProcess ==
    /\ driver = "join"
    /\ joined < n_workers
    /\ Terminated(joined)
    /\ joined' = joined + 1
    /\ UNCHANGED <<n_sim, n_workers, driver, started, worker, count, write_lock, h5file, reported>>
    /\ UNCHANGED <<seqvars, sinkvars>>

\* after the joins: the prints, with sim_counter.get_count()
AllJoined ==
    /\ driver = "join"
    /\ joined = n_workers
    /\ reported' = count
    /\ driver' = "done"
    /\ UNCHANGED <<n_sim, n_workers, started, joined, worker, count, write_lock, h5file>>
    /\ UNCHANGED <<seqvars, sinkvars>>

\* a range that steps by one whatever its step
NextIndexStepOne(i, step) == i + 1
\* range(worker_no, n_sim, n_workers): the index after i
NextIndex(i, step) == i + step
\* "for i in range(worker_no, n_sim, n_workers)": the next index, or the end
ForNext(w) ==
    /\ worker[w].pc = "for"
    /\ worker' = [worker EXCEPT ![w].pc = IF worker[w].i < n_sim THEN "load" ELSE "exited"]
    /\ UNCHANGED <<n_sim, n_workers, driver, started, joined, count, write_lock, h5file, reported>>
    /\ UNCHANGED <<seqvars, sinkvars>>

\* sim_counter.increment() runs in the manager process, in the thread that
\* serves the calling worker, with no lock: "self.count += 1" reads count,
\* then stores the sum; "return self.count" reads it again.
IncrementLoad(w) ==
    /\ worker[w].pc = "load"
    /\ worker' = [worker EXCEPT ![w].loaded = count, ![w].pc = "store",
                                ![w].ran = Append(@, worker[w].i)]
    /\ UNCHANGED <<n_sim, n_workers, driver, started, joined, count, write_lock, h5file, reported>>
    /\ UNCHANGED <<seqvars, sinkvars>>
IncrementStore(w) ==
    /\ worker[w].pc = "store"
    /\ count' = worker[w].loaded + 1
    /\ worker' = [worker EXCEPT ![w].pc = "return"]
    /\ UNCHANGED <<n_sim, n_workers, driver, started, joined, write_lock, h5file, reported>>
    /\ UNCHANGED <<seqvars, sinkvars>>
IncrementReturn(w) ==
    /\ worker[w].pc = "return"
    /\ worker' = [worker EXCEPT ![w].sim_idx = count, ![w].pc = "trial",
                                ![w].returned = Append(@, count)]
    /\ UNCHANGED <<n_sim, n_workers, driver, started, joined, count, write_lock, h5file, reported>>
    /\ UNCHANGED <<seqvars, sinkvars>>

\* the statements of a trial before the lock in which a collaborator can
\* raise: the draws, the Flight, flightv1_serializer and
\* inspect_object_attributes
WorkerSteps == {"sampling", "simulation", "serialization"}
\* a trial whose exception is caught and written to the errors text file
RunTrialLoggingError(w, raises) ==
    /\ worker[w].pc = "trial"
    /\ worker' = [worker EXCEPT ![w].pc = IF raises = "none" THEN "acquire" ELSE "crashed"]
    /\ fs' = IF raises = "none" THEN fs
             ELSE [fs EXCEPT ![mc._error_file] = Append(@, DumpsLine(EmptyDict))]
    /\ UNCHANGED <<mc, pc, files, caught, last_rnd, raised, calls>>
    /\ UNCHANGED sinkvars
    /\ UNCHANGED <<n_sim, n_workers, driver, started, joined, count, write_lock, h5file, reported>>
\* the trial up to export_dict: it runs through, or the exception ends the
\* process (the worker has no try)
RunTrial(w, raises) ==
    /\ worker[w].pc = "trial"
    /\ worker' = [worker EXCEPT ![w].pc = IF raises = "none" THEN "acquire" ELSE "crashed"]
    /\ UNCHANGED <<n_sim, n_workers, driver, started, joined, count, write_lock, h5file, reported>>
    /\ UNCHANGED <<seqvars, sinkvars>>

\* an acquire that does not wait for the lock to be free
AcquireWithoutWaiting(w) ==
    /\ worker[w].pc = "acquire"
    /\ write_lock' = HeldBy(w)
    /\ worker' = [worker EXCEPT ![w].pc = "write"]
    /\ UNCHANGED <<n_sim, n_workers, driver, started, joined, count, h5file, reported>>
    /\ UNCHANGED <<seqvars, sinkvars>>
\* write_lock.acquire()
Acquire(w) ==
    /\ worker[w].pc = "acquire"
    /\ write_lock = Free
    /\ write_lock' = HeldBy(w)
    /\ worker' = [worker EXCEPT ![w].pc = "write"]
    /\ UNCHANGED <<n_sim, n_workers, driver, started, joined, count, h5file, reported>>
    /\ UNCHANGED <<seqvars, sinkvars>>

\* "with h5py.File(file_path, 'a') as h5file: dict_to_h5(h5file, '/',
\* export_dict)": the entry is written under str(i); h5py raises if the name
\* exists or on a value it cannot store, and dict_to_h5 raises on a Function
\* leaf; the inputs group is written before the outputs group.  No statement catches: a raise ends the process
\* before write_lock.release().
WriteSink(w, raises) ==
    /\ worker[w].pc = "write"
    /\ LET i == worker[w].i
       IN  IF i \in DOMAIN h5file
           THEN /\ worker' = [worker EXCEPT ![w].pc = "crashed"]
                /\ UNCHANGED h5file
           ELSE /\ h5file' = [k \in DOMAIN h5file \cup {i} |->
                                IF k # i THEN h5file[k]
                                ELSE IF raises THEN PartEntry(i, w) ELSE Entry(i, w)]
                /\ worker' = [worker EXCEPT ![w].pc = IF raises THEN "crashed" ELSE "release"]
    /\ UNCHANGED <<n_sim, n_workers, driver, started, joined, count, write_lock, reported>>
    /\ UNCHANGED <<seqvars, sinkvars>>

\* write_lock.release(), the print, and on to the next index
Release(w) ==
    /\ worker[w].pc = "release"
    /\ write_lock' = Free
    /\ worker' = [worker EXCEPT ![w].pc = "for",
                                ![w].i = NextIndex(worker[w].i, n_workers)]
    /\ UNCHANGED <<n_sim, n_workers, driver, started, joined, count, h5file, reported>>
    /\ UNCHANGED <<seqvars, sinkvars>>

\* a step of the process running _run_simulation_worker(worker_no = w, ...)
WorkerStep(w) ==
    \/ ForNext(w)
    \/ IncrementLoad(w)
    \/ IncrementStore(w)
    \/ IncrementReturn(w)
    \/ \E raises \in WorkerSteps \cup {"none"} : RunTrial(w, raises)
    \/ Acquire(w)
    \/ \E raises \in BOOLEAN : WriteSink(w, raises)
    \/ Release(w)
\* a step of _run_in_parallel
DriverStep ==
    \/ InitializeWriteFile
    \/ StartProcess
    \/ JoinProcess
    \/ AllJoined

ParNext ==
    \/ DriverStep
    \/ \E w \in WorkerNos : WorkerStep(w)

ParSpec == ParInit /\ [][ParNext]_vars
\* The operating system runs every process that can take a step.
FairParSpec ==
    /\ ParSpec
    /\ WF_vars(DriverStep)
    /\ \A w \in WorkerNos : WF_vars(WorkerStep(w))

\* ------------------------------------------------------ the export of a trial
\* A value, by its Python type; a dict holds its items in order, as pairs
\* <<key, value>>.
Leaf(type) == [type |-> type, items |-> << >>]
Dict(items) == [type |-> "dict", items |-> items]
\* the types of the first isinstance of dict_to_h5 (a bool is an int)
Stored == {"ndarray", "int64", "float64", "str", "bytes", "int", "float"}
\* types of values of none of the three isinstance tests
Others == {"list", "tuple", "NoneType", "method"}

\* dict_to_h5(h5_file, path, dic): the file after the loop over dic.items(),
\* with the exception that ended it.  A name is the list of the keys down to
\* a value; the names written are new to the file.
RECURSIVE dict_to_h5(_, _, _)
dict_to_h5(h5, path, dic) ==
    IF dic = << >> \/ h5.exc # NoExc THEN h5
    ELSE LET key == Head(dic)[1]
             item == Head(dic)[2]
             name == Append(path, key)
             after ==
                 IF item.type \in Stored
                 THEN [h5 EXCEPT !.data = [n \in DOMAIN h5.data \cup {name} |->
                                              IF n = name THEN item.type ELSE h5.data[n]]]
                 ELSE IF item.type = "Function"
                 THEN [h5 EXCEPT !.exc = TypeError]
                 ELSE IF item.type = "dict"
                 THEN dict_to_h5(h5, name, item.items)
                 ELSE h5
         IN  dict_to_h5(after, path, Tail(dic))

\* the names dir(flight) lists, in its (sorted) order, and those of them
\* that start with "__"
AttrNames == <<"__class__", "apogee", "rocket">>
Dunder == {"__class__"}
\* inspect_object_attributes(obj): every attribute is an instance of object,
\* so all but the "__" ones are taken, a Function as function_serializer
\* gives it (serialized)
RECURSIVE inspect_object_attributes(_, _)
inspect_object_attributes(obj, serialized) ==
    IF obj = << >> THEN << >>
    ELSE LET attr_name == Head(obj)[1]
             attr_value == Head(obj)[2]
             result == inspect_object_attributes(Tail(obj), serialized)
         IN  IF attr_name \in Dunder THEN result
             ELSE IF attr_value.type = "Function"
             THEN << <<attr_name, serialized>> >> \o result
             ELSE << <<attr_name, attr_value>> >> \o result

\* The flights exported: the values of their attributes are of the types
\* above, or dicts of one such value.
AttrValues ==
    {Leaf(type) : type \in Stored \cup Others \cup {"Function"}}
    \cup {Dict(<< <<"source", Leaf(type)>> >>) : type \in {"ndarray", "Function", "list"}}
Flights ==
    {<< <<AttrNames[1], Leaf("type")>>, <<AttrNames[2], apogee>>, <<AttrNames[3], rocket>> >> :
        apogee \in AttrValues, rocket \in AttrValues}
\* what function_serializer can give for a Function
SerializedForms == {Leaf("str"), Dict(<< <<"source", Leaf("ndarray")>> >>)}
\* what flightv1_serializer(flight, name, return_dict=True) can give
InputParameters ==
    {<< >>,
     << <<"rail_length", Leaf("float")>> >>,
     << <<"rail_length", Leaf("float")>>,
        <<"rocket", Dict(<< <<"mass", Leaf("float")>>, <<"name", Leaf("str")>> >>)>> >>}
\* str(i) for the trial indices of a run
TrialKeys == <<"0", "1", "2">>

\* The export under study: a worker of a parallel run has made the Flight of
\* a trial, and the h5 file is as the driver initialized it.
ExportInit ==
    /\ fs = InitialFiles([b \in Bases |-> "run"])
    /\ mc = Construct(fs, Exportables)
    /\ pc = "parallel"
    /\ NoSequentialRun
    /\ NoParallelRun
    /\ flight \in Flights
    /\ input_parameters = << >>
    /\ export_dict = << >>
    /\ h5_file = [data |-> << >>, exc |-> NoExc]
    /\ export_pc = "flight"

\* input_parameters = flightv1_serializer(...); flight_results =
\* inspect_object_attributes(flight); export_dict = {str(i): {...}}
BuildExportDict(i, parameters, serialized) ==
    /\ export_pc = "flight"
    /\ input_parameters' = parameters
    /\ export_dict' =
          << <<TrialKeys[i + 1],
               Dict(<< <<"inputs", Dict(parameters)>>,
                       <<"outputs", Dict(inspect_object_attributes(flight, serialized))>> >>)>> >>
    /\ export_pc' = "export"
    /\ UNCHANGED <<flight, h5_file>>
    /\ UNCHANGED <<seqvars, parvars>>

\* with h5py.File(file_path, 'a') as h5file:
\*     MonteCarlo.dict_to_h5(h5file, '/', export_dict)
ExportToFile ==
    /\ export_pc = "export"
    /\ h5_file' = dict_to_h5(h5_file, << >>, export_dict)
    /\ export_pc' = "exported"
    /\ UNCHANGED <<flight, input_parameters, export_dict>>
    /\ UNCHANGED <<seqvars, parvars>>

ExportNext ==
    \/ \E i \in 0..(Len(TrialKeys) - 1), parameters \in InputParameters,
          serialized \in SerializedForms : BuildExportDict(i, parameters, serialized)
    \/ ExportToFile

ExportSpec == ExportInit /\ [][ExportNext]_vars

\* ----------------------------------------------------------------- claims
\* the lines of a file, none for a path that does not exist
Lines(path) == IF path \in DOMAIN fs THEN fs[path] ELSE <<>>
\* the last call that ended, and the one before it
LastCall == calls[Len(calls)]
PrevCall == calls[Len(calls) - 1]
\* a sequential simulate call has just ended in the given way
SimulateEnded(how) ==
    /\ pc = "idle"
    /\ calls # <<>>
    /\ LastCall.op = "simulate"
    /\ LastCall.how = how
\* the three logs of the last run are three files
ThreeFiles ==
    Cardinality({files.input_file.path, files.output_file.path,
                 files.error_file.path}) = 3

\* no log path was assigned by hand: the paths are those construction,
\* import_* and simulate set
NoPathAssigned ==
    \A i \in 1..Len(calls) : calls[i].op \notin {"input_file", "output_file", "error_file"}
\* the three paths of the object are the ones named after self.filename
DefaultPaths ==
    /\ mc._input_file = FilePath(filename, INPUTS)
    /\ mc._output_file = FilePath(filename, OUTPUTS)
    /\ mc._error_file = FilePath(filename, ERRORS)

\* C1. Append correctness: when simulate(N, append=False) has completed
\* without failure and simulate(M, append=True), called next on the same
\* object, has completed without failure (N >= 0, M >= 0), the outputs file
\* has exactly N + M lines and num_of_loaded_sims = N + M.
C1_AppendAddsTrials ==
    ( /\ SimulateEnded("completed")
      /\ Len(calls) >= 2
      /\ LastCall.append /\ LastCall.exc = NoExc /\ LastCall.n >= 0
      /\ PrevCall.op = "simulate" /\ PrevCall.how = "completed"
      /\ ~PrevCall.append /\ PrevCall.exc = NoExc /\ PrevCall.n >= 0 )
    => /\ Len(Lines(files.output_file.path)) = PrevCall.n + LastCall.n
       /\ mc.num_of_loaded_sims = PrevCall.n + LastCall.n

\* every line of the file is a whole line of text
WholeLines(path) == \A i \in 1..Len(Lines(path)) : Lines(path)[i].whole
\* the file holds every line the handle wrote
Holds(path, h) ==
    \A i \in 1..Len(h.buf) : \E j \in 1..Len(Lines(path)) : Lines(path)[j] = h.buf[i]

\* C2. Crash safety: when simulate(N, append=False), interrupted after
\* k < N trials were written in full, returns, the outputs file holds exactly
\* k whole lines, the errors file exactly one line, and no log holds a
\* partial line.
C2_InterruptLeavesWholeTrials ==
    ( /\ SimulateEnded("KeyboardInterrupt")
      /\ NoPathAssigned
      /\ ~LastCall.append /\ LastCall.exc = NoExc
      /\ Len(files.output_file.buf) < LastCall.n )
    => /\ Len(Lines(files.output_file.path)) = Len(files.output_file.buf)
       /\ Len(Lines(files.error_file.path)) = 1
       /\ WholeLines(files.input_file.path)
       /\ WholeLines(files.output_file.path)
       /\ WholeLines(files.error_file.path)

\* C3. Sequential trial failure: when a trial raised an exception, simulate
\* has appended exactly one record to the error file, closed the three
\* files and raised that exception; the output records of the trials
\* completed before it are in the outputs file.
C3_TrialFailureIsLoggedAndRaised ==
    (SimulateEnded("Exception") /\ NoPathAssigned)
    => /\ raised = caught /\ raised.type = "Exception"
       /\ files.input_file.closed /\ files.output_file.closed
       /\ files.error_file.closed
       /\ Len(Lines(files.error_file.path)) = files.error_file.start + 1
       /\ Lines(files.error_file.path)[files.error_file.start + 1]
            = DumpsLine(mc._inputs_dict)
       /\ Holds(files.output_file.path, files.output_file)

\* C7. Completion reload: when a sequential simulate call has reached the
\* total and returned, the three in-memory logs are the contents of the
\* three files the run wrote to, and the aggregates those of outputs_log.
C7_CompletionReloadsWrittenFiles ==
    (SimulateEnded("completed") /\ LastCall.exc = NoExc /\ NoPathAssigned)
    => /\ mc.inputs_log = LoadsPrefix(Lines(files.input_file.path))
       /\ mc.outputs_log = LoadsPrefix(Lines(files.output_file.path))
       /\ mc.errors_log = LoadsPrefix(Lines(files.error_file.path))
       /\ mc.results = ResultsOf(mc.outputs_log)
       /\ mc.processed_results = ProcessedOf(mc.results)

\* only simulate has been called on the object since construction
OnlySimulateCalls == \A i \in 1..Len(calls) : calls[i].op = "simulate"

\* no call ended by an exception of a trial
NoTrialRaised == \A i \in 1..Len(calls) : calls[i].how # "Exception"

\* C8. Input/output pairing: after any sequence of sequential simulate
\* calls, the i-th record of the outputs file comes from the trial whose
\* sampled inputs are the i-th record of the inputs file.
C8_OutputsPairWithInputs ==
    (pc = "idle" /\ OnlySimulateCalls /\ NoTrialRaised /\ DefaultPaths)
    => \A i \in 1..Len(Lines(mc._output_file)) :
          /\ i <= Len(Lines(mc._input_file))
          /\ Lines(mc._input_file)[i].json.id = Lines(mc._output_file)[i].json.id

\* max(N, 0)
Max0(n) == IF n > 0 THEN n ELSE 0

\* C9. Overwrite run: a simulate(N, append=False) in which no trial fails
\* ends after exactly max(N, 0) trials, with that many lines in the inputs
\* file and in the outputs file, an empty errors file and
\* num_of_loaded_sims = max(N, 0).
C9_OverwriteRunCounts ==
    (SimulateEnded("completed") /\ ~LastCall.append /\ NoPathAssigned /\ ThreeFiles)
    => /\ Len(files.output_file.buf) = Max0(LastCall.n)
       /\ Len(Lines(files.input_file.path)) = Max0(LastCall.n)
       /\ Len(Lines(files.output_file.path)) = Max0(LastCall.n)
       /\ Lines(files.error_file.path) = <<>>
       /\ mc.num_of_loaded_sims = Max0(LastCall.n)

\* C10. Loaded-count invariant: len(outputs_log) = num_of_loaded_sims in
\* every state.
C10_LoadedCountIsLogLength == Len(mc.outputs_log) = mc.num_of_loaded_sims

\* --------------------------------------------------------- parallel claims
\* range(w, n_sim, n_workers) as a sequence, from index i on
RECURSIVE Range(_, _, _)
Range(i, stop, step) ==
    IF i >= stop THEN << >> ELSE <<i>> \o Range(i + step, stop, step)
\* the indices of 0..N-1 that are congruent to w modulo W
Partition(w) == {i \in 0..(n_sim - 1) : i % n_workers = w}
\* no process of the run ended by an exception
NoWorkerFailed == \A w \in Workers : worker[w].pc # "crashed"
\* the driver is past its joins
RunDone == driver = "done"
SeqToSet(q) == {q[k] : k \in DOMAIN q}
NoDuplicate(q) == \A j, k \in DOMAIN q : j # k => q[j] # q[k]
\* the entries the run has written: those in the file once it is initialised
Written == IF driver = "new" THEN {} ELSE DOMAIN h5file

\* C4. In a parallel run in which no worker fails, worker w processes
\* indices of {i in [0,N) : i mod W = w} only, each once, and every entry in
\* the sink lies under the key of its own index, written whole by the worker
\* that owns the index; when the run is over every worker has processed
\* exactly its partition and the sink holds the keys 0..N-1, whatever count
\* the shared counter reached.
C4_PartitionIsComplete ==
    NoWorkerFailed =>
        /\ \A w \in Workers :
              /\ SeqToSet(worker[w].ran) \subseteq Partition(w)
              /\ NoDuplicate(worker[w].ran)
        /\ \A i \in Written :
              /\ h5file[i] = Entry(i, i % n_workers)
              /\ i \in SeqToSet(worker[i % n_workers].ran)
        /\ RunDone =>
              /\ \A w \in Workers : worker[w].ran = Range(w, n_sim, n_workers)
              /\ Written = 0..(n_sim - 1)
\* a run of MaxTrials trials over two workers is over, no worker failed, and
\* the counter lost an increment on the way
C4_Witness ==
    /\ RunDone
    /\ NoWorkerFailed
    /\ n_sim = MaxTrials
    /\ n_workers = 2
    /\ reported < n_sim

\* the trials worker w has to run are run and it has returned
Finished(w) == worker[w].pc = "exited" /\ worker[w].ran = Range(w, n_sim, n_workers)
\* C5. When a worker has raised in a trial and no other worker raises, every
\* other worker eventually finishes the indices of its partition and the
\* driver's joins return.
C5_WorkerFailureIsIsolated ==
    \A w \in WorkerNos :
        (worker[w].pc = "crashed") ~>
            \/ \E v \in Workers \ {w} : worker[v].pc = "crashed"
            \/ RunDone /\ \A v \in Workers \ {w} : Finished(v)

\* the values increment() has returned, over all workers
RECURSIVE Returned(_)
Returned(w) ==
    IF w < 0 THEN << >> ELSE Returned(w - 1) \o worker[w].returned
RECURSIVE TrialsStarted(_)
TrialsStarted(w) ==
    IF w < 0 THEN 0 ELSE TrialsStarted(w - 1) + Len(worker[w].ran)
\* C6. The values increment() has returned are pairwise distinct, and once
\* every worker has joined get_count() is the number of trials started.
C6_CounterIsAtomic ==
    /\ NoDuplicate(Returned(MaxWorkers - 1))
    /\ RunDone => reported = TrialsStarted(MaxWorkers - 1)

\* ------------------------------------------------------------ later claims
\* the last call on the object reloaded the outputs log and raised nothing
OutputsReloaded ==
    /\ pc = "idle"
    /\ calls # <<>>
    /\ LastCall.exc = NoExc
    /\ \/ LastCall.op \in {"output_file", "import_outputs", "import_results", "reload"}
       \/ LastCall.op = "simulate" /\ LastCall.how \in {"completed", "KeyboardInterrupt"}
\* the keys of the records of a log, and the records that carry a key
KeysOf(log) == UNION {log[i].keys : i \in 1..Len(log)}
Carrying(log, key) == {i \in 1..Len(log) : key \in log[i].keys}

\* C11. Results length: after a reload of the outputs log, results[k] has
\* length num_of_loaded_sims for every key k of a loaded output record,
\* also when the records do not all carry the same keys.
C11_ResultsHaveLoadedLength ==
    OutputsReloaded =>
        \A k \in KeysOf(mc.outputs_log) :
            /\ k \in DOMAIN mc.results
            /\ Len(mc.results[k]) = mc.num_of_loaded_sims
\* C11, amended. After a reload of the outputs log that raised nothing,
\* num_of_loaded_sims is the number of loaded records, results has the keys
\* of the loaded records, and results[k] holds, in order, the value of every
\* record that carries k and nothing for a record that lacks it: its length
\* is the number of records carrying k, which is num_of_loaded_sims exactly
\* when every record carries k.
C11_ResultsHoldAvailableValues ==
    OutputsReloaded =>
        /\ mc.num_of_loaded_sims = Len(mc.outputs_log)
        /\ DOMAIN mc.results = KeysOf(mc.outputs_log)
        /\ \A k \in KeysOf(mc.outputs_log) :
              /\ Len(mc.results[k]) = Cardinality(Carrying(mc.outputs_log, k))
              /\ \A j \in 1..Len(mc.results[k]) :
                    \E i \in Carrying(mc.outputs_log, k) :
                        /\ mc.results[k][j] = ValueOf(mc.outputs_log[i], k)
                        /\ Cardinality({h \in Carrying(mc.outputs_log, k) : h <= i}) = j
\* an append run with a shorter export list has completed over the log of an
\* earlier run: a key of the log is missing from a loaded record
C11_Witness ==
    /\ OutputsReloaded
    /\ LastCall.op = "simulate" /\ LastCall.append
    /\ \E k \in DOMAIN mc.results :
          /\ Len(mc.results[k]) > 0
          /\ Len(mc.results[k]) < mc.num_of_loaded_sims

\* the entries of an export_list argument that are no str, and the str
\* entries that name no exportable
NonStrings(export_list) == {attr \in export_list : attr.type # "str"}
Unknowns(export_list) ==
    {attr \in export_list : attr.type = "str" /\ attr.text \notin Exportables}
\* the construction raised an error of the export-list check and did nothing
\* else: no log was imported, no file touched, and there is no object to
\* run a trial on
FailedFast(error) ==
    /\ raised' = error
    /\ pc' = "failed"
    /\ mc' = NewObject({})
    /\ fs' = fs
    /\ calls' = <<>> /\ last_rnd' = 0
\* C12. Export-list validation is fail-fast: constructing with an
\* export_list that contains a non-string raises TypeError, with one that
\* contains a string outside the exportable set raises ValueError (with
\* entries of both kinds, one of the two), in both cases during construction
\* before any log is imported and before any trial can run; a list of
\* exportable names is accepted and becomes the active export list.
C12_ExportListIsCheckedFirst ==
    [][\A export_list \in ExportArgs :
          New(export_list) =>
            /\ (NonStrings(export_list) # {} /\ Unknowns(export_list) = {})
                  => FailedFast(TypeError)
            /\ (NonStrings(export_list) = {} /\ Unknowns(export_list) # {})
                  => FailedFast(ValueError)
            /\ (NonStrings(export_list) # {} /\ Unknowns(export_list) # {})
                  => FailedFast(TypeError) \/ FailedFast(ValueError)
            /\ (NonStrings(export_list) = {} /\ Unknowns(export_list) = {}
                   /\ export_list # {})
                  => /\ raised' \notin {TypeError, ValueError}
                     /\ mc'.export_list = {attr.text : attr \in export_list}
    ]_vars
\* the construction over the logs of an earlier run was refused for a name
\* that is no exportable: the logs on the disk are not in the object
C12_Witness ==
    /\ pc = "failed"
    /\ raised = ValueError
    /\ FilePath(filename, OUTPUTS) \in DOMAIN fs
    /\ fs[FilePath(filename, OUTPUTS)] # <<>>
    /\ mc.outputs_log = <<>>

\* the logs and aggregates of an object
Loaded(o) ==
    <<o.inputs_log, o.outputs_log, o.errors_log, o.num_of_loaded_sims,
      o.results, o.processed_results>>
\* C13. Idempotent reload: a reload of the three logs that follows a reload
\* of them, with no write to the files in between, leaves inputs_log,
\* outputs_log, errors_log, num_of_loaded_sims, results and
\* processed_results as the first reload left them (and ends as it ended).
C13_ReloadIsIdempotent ==
    [][(Reload /\ calls # <<>> /\ LastCall.op = "reload")
          => /\ Loaded(mc') = Loaded(mc)
             /\ raised' = raised
    ]_vars
\* a run that a trial's exception ended left its records on the disk only;
\* the logs were then reloaded twice and hold those records
C13_Witness ==
    /\ pc = "idle"
    /\ Len(calls) = 3
    /\ calls[1].op = "simulate" /\ calls[1].how = "Exception"
    /\ calls[2].op = "reload" /\ calls[3].op = "reload"
    /\ raised = NoExc
    /\ \E i \in 1..Len(mc.outputs_log) : mc.outputs_log[i].id > 0

\* C14. Interrupt is a clean stop: a keyboard interrupt raised in the trial
\* loop is caught inside simulate, which returns to the caller without
\* raising; the handler has run once, leaving one error record.
C14_InterruptIsCleanStop ==
    (SimulateEnded("KeyboardInterrupt") /\ NoPathAssigned /\ ThreeFiles)
    => /\ raised = NoExc
       /\ LastCall.exc = NoExc
       /\ Len(files.error_file.buf) = 1

\* C15. Parallel mode leaves the text logs alone: no step of a
\* simulate(N, parallel=True) call writes to a text file (no error record
\* is persisted when a worker fails) or changes inputs_log, outputs_log,
\* errors_log, num_of_loaded_sims, results or processed_results.
C15_ParallelLeavesTextLogs ==
    [][fs' = fs /\ Loaded(mc') = Loaded(mc)]_vars
\* a parallel run is over in which a worker failed and another wrote its
\* entries: the errors file is as the earlier run left it
C15_Witness ==
    /\ RunDone
    /\ \E w \in Workers : worker[w].pc = "crashed"
    /\ DOMAIN h5file # {}
    /\ fs[mc._error_file] = <<>>
    /\ mc.errors_log = <<>>

\* the worker is between write_lock.acquire() and write_lock.release()
InSinkSection(w) == worker[w].pc \in {"write", "release"}
\* C16. Lock release: a worker that acquired the write lock releases it
\* before it starts its next trial or terminates, also when the sink write
\* raises; the lock is held by a worker only while that worker is in the
\* sink section, never while it samples or simulates.
C16_LockIsReleased ==
    \A w \in WorkerNos :
        write_lock = HeldBy(w) => InSinkSection(w)

\* C17. Mutual exclusion on the sink: at most one worker at a time is in
\* the sink-append section, and it is the one that holds the lock.
C17_OneWriterAtATime ==
    \A v, w \in WorkerNos :
        (InSinkSection(v) /\ InSinkSection(w))
            => (v = w /\ write_lock = HeldBy(w))
\* one worker is writing its entry while another waits for the lock
C17_Witness ==
    \E v, w \in Workers :
        /\ v # w
        /\ worker[v].pc = "write"
        /\ worker[w].pc = "acquire"
        /\ write_lock = HeldBy(v)

\* the error record the last run wrote
ErrorRecord == files.error_file.buf[Len(files.error_file.buf)]
\* C18. Error-record content: when a sequential run aborts, by interrupt or
\* by exception, while trial t is in progress, the record appended to the
\* error log is the input set sampled for trial t, the most recently sampled
\* one; it is not the input set of an earlier trial and not an empty record.
C18_ErrorRecordIsCurrentSample ==
    ( /\ pc = "idle" /\ calls # <<>>
      /\ LastCall.op = "simulate"
      /\ LastCall.how \in {"KeyboardInterrupt", "Exception"} )
    => /\ files.error_file.buf # <<>>
       /\ ErrorRecord.json = InputsDict(last_rnd)

\* the dicts of a sequence of lines, and of a log
Dicts(lines) == {lines[i].json : i \in 1..Len(lines)}
Records(log) == {log[i] : i \in 1..Len(log)}
\* the last simulate call stopped before the count reached the total
Aborted ==
    /\ pc = "idle" /\ calls # <<>>
    /\ LastCall.op = "simulate"
    /\ LastCall.how \in {"KeyboardInterrupt", "Exception"}
\* C19. Completed and Aborted are exclusive: the completion step (the
\* reassignment of the three paths and the reload of the logs) runs only
\* when the count reached the total with no interrupt and no exception; a
\* run an interrupt or an exception stopped ends without it, so the logs in
\* memory hold none of the records that run wrote.
C19_AbortedRunIsNotCompleted ==
    Aborted =>
        /\ Dicts(files.input_file.buf) \cap Records(mc.inputs_log) = {}
        /\ Dicts(files.output_file.buf) \cap Records(mc.outputs_log) = {}

\* C20. Resumption count: whenever no simulate call is in progress,
\* num_of_loaded_sims is the number of lines in the outputs file, so an
\* append run issued after a run that failed with an exception starts its
\* iteration counter at the number of output records on the disk.
C20_LoadedCountIsOnDisk ==
    (pc = "idle" /\ OnlySimulateCalls /\ DefaultPaths)
    => mc.num_of_loaded_sims = Len(Lines(mc._output_file))

\* ------------------------------------------------------------ sink claims
\* the types of the values a dict holds at any depth that are not dicts
RECURSIVE LeafTypes(_)
LeafTypes(dic) ==
    IF dic = << >> THEN {}
    ELSE LET item == Head(dic)[2]
         IN  (IF item.type = "dict" THEN LeafTypes(item.items) ELSE {item.type})
             \cup LeafTypes(Tail(dic))
\* C21. Sink leaves fail fast: when the entry of a trial has been written
\* to the h5 file, either every leaf of the entry is of a type the file
\* stores (a primitive scalar, a str or bytes, an array; dicts are groups)
\* or the write ended with an exception; no other leaf is skipped silently.
C21_SinkLeavesFailFast ==
    export_pc = "exported"
    => (LeafTypes(export_dict) \subseteq Stored \/ h5_file.exc # NoExc)

\* both groups of the entry are in the file
Whole(entry) == entry.inputs /\ entry.outputs
\* C22. Sink entries are whole: whenever the write lock is free, every
\* entry the run has put in the h5 file has both its inputs and its outputs
\* group; and a worker whose sink write failed part-way has left no entry
\* of which a group is missing.
C22_SinkEntriesAreWhole ==
    /\ write_lock = Free => \A k \in Written : Whole(h5file[k])
    /\ \A w \in WorkerNos :
          worker[w].pc = "crashed"
          => \A k \in Written : h5file[k].by = w => Whole(h5file[k])

\* C23. Join ordering: while the driver waits on a worker, and after, every
\* worker has been started; the workers it has joined have terminated; and
\* it has printed "All workers joined" only with every worker joined and
\* terminated, so with a worker that never terminates it never gets there.
C23_DriverJoinsAllWorkers ==
    /\ driver \in {"join", "done"}
       => started = n_workers /\ \A w \in Workers : worker[w].pc # "new"
    /\ \A w \in Workers : w < joined => Terminated(w)
    /\ RunDone => joined = n_workers /\ \A w \in Workers : Terminated(w)
C23_Witness ==
    /\ RunDone
    /\ n_workers > 1
    /\ \E w \in Workers : worker[w].pc = "crashed"
    /\ \E w \in Workers : worker[w].pc = "exited" /\ worker[w].ran # << >>

\* --------------------------------------------------- closing and reloading
AllClosed ==
    files.input_file.closed /\ files.output_file.closed /\ files.error_file.closed
\* the error log of the run is a file of its own
OwnErrorFile ==
    files.error_file.path \notin {files.input_file.path, files.output_file.path}
OnlyChanges(fields) ==
    \A f \in DOMAIN mc : f \notin fields => mc'[f] = mc[f]
\* the operations that assign the output-file path: the assignment itself,
\* import_outputs, import_results and the end of a simulate call
AssignsOutputFile ==
    /\ calls' # calls
    /\ calls'[Len(calls')].op \in {"output_file", "import_outputs", "import_results", "simulate"}
\* C25. Reload frame: an assignment to output_file leaves outputs_log as
\* the records of the file, with num_of_loaded_sims, results and
\* processed_results computed from it, and changes nothing else but the
\* path; an assignment to input_file changes inputs_log and its path only,
\* one to error_file errors_log and its path only; and results and
\* processed_results change in no step but one that assigns output_file.
C25_ReloadFrame ==
    [][ /\ \A value \in Paths :
              AssignOutputFile(value)
              => /\ mc'.outputs_log = ReadLog(fs, value).log
                 /\ mc'.num_of_loaded_sims = Len(mc'.outputs_log)
                 /\ mc'.results = ResultsOf(mc'.outputs_log)
                 /\ mc'.processed_results = ProcessedOf(mc'.results)
                 /\ OnlyChanges({"_output_file", "outputs_log", "num_of_loaded_sims",
                                 "results", "processed_results"})
        /\ \A value \in Paths :
              AssignInputFile(value)
              => /\ mc'.inputs_log = ReadLog(fs, value).log
                 /\ OnlyChanges({"_input_file", "inputs_log"})
        /\ \A value \in Paths :
              AssignErrorFile(value)
              => /\ mc'.errors_log = ReadLog(fs, value).log
                 /\ OnlyChanges({"_error_file", "errors_log"})
        /\ (mc'.results # mc.results \/ mc'.processed_results # mc.processed_results)
           => AssignsOutputFile
    ]_vars

\* the calls made on the object so far are import_* calls
OnlyImportCalls ==
    \A i \in 1..Len(calls) :
        calls[i].op \in {"import_inputs", "import_outputs", "import_errors", "import_results"}
\* C26. Three distinct log files: after construction and any import_inputs,
\* import_outputs, import_errors and import_results calls, the paths of the
\* inputs, outputs and errors logs are pairwise distinct (also when a given
\* filename is itself a file, which the import takes as the path).
C26_ThreeDistinctLogFiles ==
    (pc = "idle" /\ OnlyImportCalls)
    => Cardinality({mc._input_file, mc._output_file, mc._error_file}) = 3
====
